---- MODULE Spec2Model ----
(***************************************************************************)
(* Model of dbt-altertable's connection layer                              *)
(* (dbt/adapters/altertable/connections.py):                               *)
(*   - AltertableCursor: execute / _process_arrow_table / fetchone /       *)
(*     fetchmany / fetchall / close / __next__                             *)
(*   - AltertableConnection.cursor: several cursors on one client          *)
(*   - AltertableCredentials and AltertableConnectionManager.open          *)
(*                                                                         *)
(* Python's Optional values are modelled as sequences of length 0 (None)   *)
(* or 1 (a present value).                                                 *)
(***************************************************************************)
EXTENDS Integers, Sequences, FiniteSets, TLC

\* ------------------------------------------------------------------ bounds
MaxRows == 2
MaxCols == 2
MaxSize == 2
MaxBack == 3
MaxClients == 3

\* ------------------------------------------------------- Python primitives
None == <<>>
Some(x) == <<x>>

Min(a, b) == IF a <= b THEN a ELSE b

\* One bound of a Python slice over a sequence of length n: a negative index
\* counts from the end, and the result is clamped to [0, n].
PySliceBound(i, n) ==
    IF i < 0 THEN (IF i + n < 0 THEN 0 ELSE i + n)
    ELSE (IF i > n THEN n ELSE i)

\* s[a:b] for 0-based a, b (any integers).
PySlice(s, a, b) ==
    LET lo == PySliceBound(a, Len(s))
        hi == PySliceBound(b, Len(s))
    IN  IF lo >= hi THEN <<>> ELSE SubSeq(s, lo + 1, hi)

\* s[i] is defined for -len <= i < len; anything else is an IndexError.
PyIndexOk(s, i) == i >= -Len(s) /\ i < Len(s)
PyIndex(s, i) == IF i < 0 THEN s[Len(s) + i + 1] ELSE s[i + 1]

\* --------------------------------------------------------- Arrow tables
Names == {"a", "b"}
Types == {"int64"}

\* The value in row i of column c.  Every cell of a table holds a different
\* value, so that a row shows which cells it was built from.
Cell(c, i) == 10 * c + i

\* A table: a schema (one field per column, in order) and one buffer per
\* column, all buffers of the same length num_rows.
Fields == [name : Names, type : Types]
TablesOf(c, n) ==
    {[schema |-> sch, columns |-> [k \in 1..c |-> [i \in 1..n |-> Cell(k, i)]], num_rows |-> n] :
        sch \in [1..c -> Fields]}
Tables == UNION {TablesOf(c, n) : c \in 0..MaxCols, n \in 0..MaxRows}

\* dict[k] = v on an insertion-ordered dict kept as a sequence of <<k, v>>:
\* an existing key keeps its place and takes the new value.
DictSet(d, k, v) ==
    IF \E i \in 1..Len(d) : d[i][1] = k
    THEN [i \in 1..Len(d) |-> IF d[i][1] = k THEN <<k, v>> ELSE d[i]]
    ELSE Append(d, <<k, v>>)

RECURSIVE ToPydictUpTo(_, _)
ToPydictUpTo(table, i) ==
    IF i = 0 THEN <<>>
    ELSE DictSet(ToPydictUpTo(table, i - 1), table.schema[i].name, table.columns[i])

\* table.to_pydict(): column name -> column values, filled column by column.
ToPydict(table) == ToPydictUpTo(table, Len(table.schema))

DictValues(d) == [i \in 1..Len(d) |-> d[i][2]]

\* ------------------------------------------------------------------ state
VARIABLES
    results,          \* AltertableCursor._results (Optional list of rows)
    description,      \* AltertableCursor._description (Optional list)
    rowcount,         \* AltertableCursor._rowcount
    cursor_position,  \* AltertableCursor._cursor_position
    lastOp,           \* the cursor method that ran last
    lastArg,          \* its argument (fetchmany's size, execute's bindings)
    lastTable,        \* the table the transport returned to the last execute
    ret,              \* what the last call returned
    raised,           \* the exception that left the last call, or "none"
    calls,            \* transport calls made by the last execute
    pre,              \* cursor fields as they were when the last call began
    executed,         \* execute() has been called on this cursor
    closed,           \* close() has been called on this cursor
    credentials,      \* Optional AltertableCredentials
    connState,        \* Connection.state
    handle,           \* Connection.handle (Optional AltertableConnection)
    connectCalls,     \* Client(...) constructions made by the last open()
    clients,          \* number of transport clients constructed so far
    openRet,          \* what the last open() returned / raised
    connOp,           \* the connection operation that ran last
    connPre,          \* connection state and handle when the last open() began
    cursors,          \* the cursors made by AltertableConnection.cursor()
    opCursor          \* the cursor the last call was made on

cursorVars == <<results, description, rowcount, cursor_position, lastOp, lastArg,
                lastTable, ret, raised, calls, pre, executed, closed>>
connVars == <<credentials, connState, handle, connectCalls, clients, openRet, connOp, connPre>>
multiVars == <<cursors, opCursor>>
vars == <<results, description, rowcount, cursor_position, lastOp, lastArg,
          lastTable, ret, raised, calls, pre, executed, closed,
          credentials, connState, handle, connectCalls, clients, openRet, connOp, connPre,
          cursors, opCursor>>

\* ------------------------------------------------------- AltertableCursor
Bindings == {None, Some("params")}
Sizes == {None} \cup {Some(n) : n \in (-MaxSize)..(MaxSize + 1)}

RetNothing == [kind |-> "nothing", val |-> <<>>]
RetNone == [kind |-> "None", val |-> <<>>]
RetRow(row) == [kind |-> "tuple", val |-> <<row>>]
RetList(rows) == [kind |-> "list", val |-> rows]
RetSelf == [kind |-> "self", val |-> <<>>]

Snapshot == [present |-> results # None, described |-> description # None,
             rowcount |-> rowcount, cursor_position |-> cursor_position]

\* The transport calls execute() makes, in order, on each of its two paths.
TransportPath(bindings) ==
    IF bindings # None THEN <<"prepare", "stmt.query", "read_all">>
    ELSE <<"query", "read_all">>

\* The errors the transport client can raise from prepare, query or read_all.
TransportErrors == {"FlightUnavailableError", "FlightInternalError"}

\* A failed call that is made once more.
CallsMadeWithRetry(path, failAt, err) ==
    IF failAt = 0
    THEN [i \in 1..Len(path) |-> [call |-> path[i], raised |-> "none"]]
    ELSE [i \in 1..(failAt + 1) |->
            [call |-> path[IF i > failAt THEN failAt ELSE i],
             raised |-> IF i >= failAt THEN err ELSE "none"]]

\* The transport calls of one execute(): all of the path when none raises
\* (failAt = 0), else the calls up to the one that raises err.  There is no
\* try/except around them, so the first exception ends the method.
CallsMade(path, failAt, err) ==
    IF failAt = 0
    THEN [i \in 1..Len(path) |-> [call |-> path[i], raised |-> "none"]]
    ELSE [i \in 1..failAt |->
            [call |-> path[i], raised |-> IF i = failAt THEN err ELSE "none"]]

\* exception_handler: what leaves the context manager when its body raises exc.
ExceptionHandler(exc) == IF exc = "none" THEN "none" ELSE "DbtRuntimeError"

\* _process_arrow_table: the description built from the schema.
BuildDescription(table) ==
    [i \in 1..Len(table.schema) |->
        <<table.schema[i].name, table.schema[i].type, None, None, None, None, None>>]

\* A materialization that makes one (empty) row per table row when the table
\* has no column.
BuildResultsEmptyRows(table) ==
    LET columns == DictValues(ToPydict(table))
    IN  IF columns # <<>>
        THEN LET num_rows == Len(columns[1])
             IN  [i \in 1..num_rows |-> [c \in 1..Len(columns) |-> columns[c][i]]]
        ELSE [i \in 1..table.num_rows |-> <<>>]

\* _process_arrow_table: the rows built from list(table.to_pydict().values()).
BuildResults(table) ==
    LET columns == DictValues(ToPydict(table))
    IN  IF columns # <<>>
        THEN LET num_rows == Len(columns[1])
             IN  [i \in 1..num_rows |-> [c \in 1..Len(columns) |-> columns[c][i]]]
        ELSE <<>>

\* A cursor that never counts rows.
BuildRowcountUnknown(rows) == -1

BuildRowcount(rows) == Len(rows)

\* An execute() that clears the previous rows only once the new table is read.
ResetResultsKept(previous) == previous

\* The value execute() leaves in _results before it runs the statement.
ResetResults(previous) == None

\* An execute() that forgets to reset the position.
ResetPositionKept(position) == position

\* The value execute() leaves in _cursor_position before it runs the statement.
ResetPosition(position) == 0

\* execute(sql, bindings): the state is reset, the statement is run on the
\* raw or the prepared path, and the table read is materialized.  failAt = 0
\* is a run without transport error; failAt = k means the k-th transport
\* call raises, and the exception leaves execute().
Execute(bindings, failAt, table) ==
    /\ pre' = Snapshot
    /\ lastOp' = "execute"
    /\ lastArg' = bindings
    /\ executed' = TRUE
    /\ closed' = closed
    /\ IF failAt = 0
       THEN /\ calls' = CallsMade(TransportPath(bindings), 0, "none")
            /\ lastTable' = Some(table)
            /\ description' = Some(BuildDescription(table))
            /\ results' = Some(BuildResults(table))
            /\ rowcount' = BuildRowcount(BuildResults(table))
            /\ cursor_position' = ResetPosition(cursor_position)
            /\ ret' = RetSelf
            /\ raised' = "none"
       ELSE /\ \E err \in TransportErrors :
                    /\ calls' = CallsMade(TransportPath(bindings), failAt, err)
                    /\ raised' = err
            /\ lastTable' = None
            /\ description' = None
            /\ results' = ResetResults(results)
            /\ rowcount' = -1
            /\ cursor_position' = ResetPosition(cursor_position)
            /\ ret' = RetNothing
    /\ UNCHANGED connVars
    /\ UNCHANGED multiVars

\* An end test that is off by one.
AtEndStrict(position, length) == position > length

\* fetchone's test for the end of the result.
AtEnd(position, length) == position >= length

\* fetchone(): None without a result or at/after the end; else the row at
\* _cursor_position (Python indexing, so a position below -len raises).
FetchOne ==
    /\ pre' = Snapshot
    /\ lastOp' = "fetchone"
    /\ lastArg' = None
    /\ IF results = None \/ AtEnd(cursor_position, Len(results[1]))
       THEN /\ ret' = RetNone
            /\ raised' = "none"
            /\ cursor_position' = cursor_position
       ELSE IF ~PyIndexOk(results[1], cursor_position)
       THEN /\ ret' = RetNothing
            /\ raised' = "IndexError"
            /\ cursor_position' = cursor_position
       ELSE /\ ret' = RetRow(PyIndex(results[1], cursor_position))
            /\ raised' = "none"
            /\ cursor_position' = cursor_position + 1
    /\ UNCHANGED <<results, description, rowcount, lastTable, calls, executed, closed>>
    /\ UNCHANGED connVars
    /\ UNCHANGED multiVars

DefaultSize == 1

\* The end index fetchmany computes.
FetchManyEnd(position, size, length) == Min(position + size, length)

\* fetchmany(size): [] without a result; else the slice from the position
\* to min(position + size, len), and the position becomes that end.
FetchMany(sizeArg) ==
    LET size == IF sizeArg = None THEN DefaultSize ELSE sizeArg[1]
    IN  /\ results # None =>
              FetchManyEnd(cursor_position, size, Len(results[1])) >= -MaxBack
        /\ pre' = Snapshot
        /\ lastOp' = "fetchmany"
        /\ lastArg' = sizeArg
        /\ raised' = "none"
        /\ IF results = None
           THEN /\ ret' = RetList(<<>>)
                /\ cursor_position' = cursor_position
           ELSE LET end == FetchManyEnd(cursor_position, size, Len(results[1]))
                IN  /\ ret' = RetList(PySlice(results[1], cursor_position, end))
                    /\ cursor_position' = end
        /\ UNCHANGED <<results, description, rowcount, lastTable, calls, executed, closed>>
        /\ UNCHANGED connVars
        /\ UNCHANGED multiVars

\* fetchall(): [] without a result; else the slice from the position to the
\* end, and the position becomes len.
FetchAll ==
    /\ pre' = Snapshot
    /\ lastOp' = "fetchall"
    /\ lastArg' = None
    /\ raised' = "none"
    /\ IF results = None
       THEN /\ ret' = RetList(<<>>)
            /\ cursor_position' = cursor_position
       ELSE /\ ret' = RetList(PySlice(results[1], cursor_position, Len(results[1])))
            /\ cursor_position' = Len(results[1])
    /\ UNCHANGED <<results, description, rowcount, lastTable, calls, executed, closed>>
    /\ UNCHANGED connVars
    /\ UNCHANGED multiVars

\* A close() that forgets the description.
CloseDescriptionKept(previous) == previous

\* The value close() leaves in _description.
CloseDescription(previous) == None

\* A close() that also rewinds the cursor.
ClosePositionReset(position) == 0

\* The value close() leaves in _cursor_position: it does not assign it.
ClosePosition(position) == position

\* close(): clears _results and _description only.
Close ==
    /\ pre' = Snapshot
    /\ lastOp' = "close"
    /\ lastArg' = None
    /\ raised' = "none"
    /\ ret' = RetNone
    /\ results' = None
    /\ description' = CloseDescription(description)
    /\ closed' = TRUE
    /\ cursor_position' = ClosePosition(cursor_position)
    /\ UNCHANGED <<rowcount, lastTable, calls, executed>>
    /\ UNCHANGED connVars
    /\ UNCHANGED multiVars

\* __next__(): row = self.fetchone(); StopIteration when it is None, else
\* the row.  (__iter__ returns the cursor itself.)
IterNext ==
    /\ pre' = Snapshot
    /\ lastOp' = "__next__"
    /\ lastArg' = None
    /\ IF results = None \/ AtEnd(cursor_position, Len(results[1]))
       THEN /\ ret' = RetNothing
            /\ raised' = "StopIteration"
            /\ cursor_position' = cursor_position
       ELSE IF ~PyIndexOk(results[1], cursor_position)
       THEN /\ ret' = RetNothing
            /\ raised' = "IndexError"
            /\ cursor_position' = cursor_position
       ELSE /\ ret' = RetRow(PyIndex(results[1], cursor_position))
            /\ raised' = "none"
            /\ cursor_position' = cursor_position + 1
    /\ UNCHANGED <<results, description, rowcount, lastTable, calls, executed, closed>>
    /\ UNCHANGED connVars
    /\ UNCHANGED multiVars

\* AltertableCursor.__init__
CursorInit ==
    /\ results = None
    /\ description = None
    /\ rowcount = -1
    /\ cursor_position = 0
    /\ lastOp = "init"
    /\ lastArg = None
    /\ lastTable = None
    /\ ret = RetNothing
    /\ raised = "none"
    /\ calls = <<>>
    /\ pre = [present |-> FALSE, described |-> FALSE, rowcount |-> -1, cursor_position |-> 0]
    /\ executed = FALSE
    /\ closed = FALSE

\* --------------------------------------------------- AltertableCredentials
Hosts == {"flight.altertable.ai", "h"}
MinPort == 0
MaxPort == 65535
Ports == {MinPort - 1, MinPort, 443, MaxPort, MaxPort + 1}

\* The dataclass constructor: every field is stored as given.  Minimum and
\* Maximum annotate the type of the port field; the generated __init__ does
\* not read annotations.
MakeCredentials(host, port, tls) ==
    [username |-> "u", password |-> "p", database |-> "d", schema |-> "s",
     host |-> host, port |-> port, tls |-> tls]

NewCredentials(host, port, tls) ==
    /\ credentials = None
    /\ credentials' = Some(MakeCredentials(host, port, tls))
    /\ connOp' = "credentials"
    /\ UNCHANGED <<connState, handle, connectCalls, clients, openRet, connPre>>
    /\ UNCHANGED cursorVars
    /\ UNCHANGED multiVars

\* --------------------------------------------- AltertableConnectionManager
\* One retry more than the code asks for.
RetryLimitTwo == 1 + 1

RetryLimit == 1

\* A test against the wrong state.
IsOpenWrongState(state) == state = "closed"

\* open(): the test that returns the connection as it is.
IsOpen(state) == state = "open"

\* connect(): the arguments of altertable_flightsql.Client(...).  All are
\* keyword arguments; there is no positional argument.
ConnectCall(creds, ok) ==
    [args |-> <<>>,
     kwargs |-> [username |-> creds.username, password |-> creds.password,
                 catalog |-> creds.database, schema |-> creds.schema,
                 host |-> creds.host, port |-> creds.port, tls |-> creds.tls],
     ok |-> ok]

\* retry_connection: the number of connect() calls made when the i-th call
\* succeeds iff outcomes[i]: one call, and one more after each failure as
\* long as retries remain.
NumAttempts(outcomes, retry_limit) ==
    IF \E i \in 1..(retry_limit + 1) : outcomes[i]
    THEN CHOOSE i \in 1..(retry_limit + 1) :
            outcomes[i] /\ \A j \in 1..(i - 1) : ~outcomes[j]
    ELSE retry_limit + 1

\* retry_connection(connection, connect, retry_limit): on success the handle
\* is what connect() returned and the state is open; when the last allowed
\* call fails the handle is cleared, the state is fail and
\* FailedToConnectError is raised.
RetryConnection(outcomes, retry_limit) ==
    LET n == NumAttempts(outcomes, retry_limit)
    IN  /\ connectCalls' = [i \in 1..n |-> ConnectCall(credentials[1], outcomes[i])]
        /\ IF outcomes[n]
           THEN /\ clients < MaxClients
                /\ clients' = clients + 1
                /\ handle' = Some([client |-> clients + 1])
                /\ connState' = "open"
                /\ openRet' = "connection"
           ELSE /\ clients' = clients
                /\ handle' = None
                /\ connState' = "fail"
                /\ openRet' = "FailedToConnectError"

\* open(connection).  outcomes[i] tells whether the i-th construction of the
\* transport client would succeed.
Open(outcomes) ==
    /\ credentials # None
    /\ connOp' = "open"
    /\ connPre' = [state |-> connState, handle |-> handle, clients |-> clients]
    /\ IF IsOpen(connState)
       THEN /\ connectCalls' = <<>>
            /\ openRet' = "connection"
            /\ UNCHANGED <<connState, handle, clients>>
       ELSE RetryConnection(outcomes, RetryLimit)
    /\ UNCHANGED credentials
    /\ UNCHANGED cursorVars
    /\ UNCHANGED multiVars

\* The host releases the connection: the state becomes closed.
Release ==
    /\ connState = "open"
    /\ connState' = "closed"
    /\ connOp' = "release"
    /\ UNCHANGED <<credentials, handle, connectCalls, clients, openRet, connPre>>
    /\ UNCHANGED cursorVars
    /\ UNCHANGED multiVars

ConnInit ==
    /\ credentials = None
    /\ connState = "init"
    /\ handle = None
    /\ connectCalls = <<>>
    /\ clients = 0
    /\ openRet = "none"
    /\ connOp = "init"
    /\ connPre = [state |-> "init", handle |-> None, clients |-> 0]

\* ----------------------------------------- several cursors, one connection
CursorIds == {"c1", "c2"}

\* The tables read in the runs with several cursors.
FewTables == {t \in Tables : Len(t.schema) <= 1}

\* AltertableCursor.__init__ as a value: the fields of a new cursor.
NewCursor(client) ==
    [client |-> client, results |-> None, description |-> None,
     rowcount |-> -1, cursor_position |-> 0]

\* Fields kept once for the class: every cursor sees what one cursor stores.
StoreFieldsShared(cs, id, c) ==
    [j \in CursorIds |-> IF j = id \/ cs[j] # None THEN Some(c) ELSE None]

\* The fields are attributes of the instance: storing into cursor id leaves
\* the other cursors' fields alone.
StoreFields(cs, id, c) == [cs EXCEPT ![id] = Some(c)]

\* execute() on the fields of one cursor.
ExecuteOn(c, failAt, table) ==
    IF failAt = 0
    THEN [c EXCEPT !.description = Some(BuildDescription(table)),
                   !.results = Some(BuildResults(table)),
                   !.rowcount = BuildRowcount(BuildResults(table)),
                   !.cursor_position = ResetPosition(c.cursor_position)]
    ELSE [c EXCEPT !.description = None, !.results = ResetResults(c.results),
                   !.rowcount = -1,
                   !.cursor_position = ResetPosition(c.cursor_position)]

\* fetchone() on the fields of one cursor (an IndexError changes nothing).
FetchOneOn(c) ==
    IF c.results = None \/ AtEnd(c.cursor_position, Len(c.results[1]))
    THEN c
    ELSE IF ~PyIndexOk(c.results[1], c.cursor_position)
    THEN c
    ELSE [c EXCEPT !.cursor_position = c.cursor_position + 1]

\* fetchmany(size) on the fields of one cursor.
FetchManyOn(c, sizeArg) ==
    LET size == IF sizeArg = None THEN DefaultSize ELSE sizeArg[1]
    IN  IF c.results = None
        THEN c
        ELSE [c EXCEPT !.cursor_position =
                    FetchManyEnd(c.cursor_position, size, Len(c.results[1]))]

\* fetchall() on the fields of one cursor.
FetchAllOn(c) ==
    IF c.results = None THEN c
    ELSE [c EXCEPT !.cursor_position = Len(c.results[1])]

\* close() on the fields of one cursor.
CloseOn(c) ==
    [c EXCEPT !.results = None, !.description = CloseDescription(c.description),
              !.cursor_position = ClosePosition(c.cursor_position)]

\* One call on cursor id that turns its fields into c.
CallOn(id, c) ==
    /\ cursors' = StoreFields(cursors, id, c)
    /\ opCursor' = id
    /\ UNCHANGED cursorVars
    /\ UNCHANGED connVars

\* AltertableConnection.cursor(): a new cursor on the connection's client.
ConnCursor(id) ==
    /\ handle # None
    /\ cursors[id] = None
    /\ CallOn(id, NewCursor(handle[1].client))

MultiExecuteOk ==
    \E id \in CursorIds, t \in FewTables :
        cursors[id] # None /\ CallOn(id, ExecuteOn(cursors[id][1], 0, t))

MultiExecuteFail ==
    \E id \in CursorIds :
        /\ cursors[id] # None
        /\ CallOn(id, ExecuteOn(cursors[id][1], 1, [schema |-> <<>>, columns |-> <<>>, num_rows |-> 0]))

MultiFetchOne ==
    \E id \in CursorIds : cursors[id] # None /\ CallOn(id, FetchOneOn(cursors[id][1]))

MultiFetchMany ==
    \E id \in CursorIds, sz \in Sizes :
        /\ cursors[id] # None
        /\ FetchManyOn(cursors[id][1], sz).cursor_position >= -MaxBack
        /\ CallOn(id, FetchManyOn(cursors[id][1], sz))

MultiFetchAll ==
    \E id \in CursorIds : cursors[id] # None /\ CallOn(id, FetchAllOn(cursors[id][1]))

MultiClose ==
    \E id \in CursorIds : cursors[id] # None /\ CallOn(id, CloseOn(cursors[id][1]))

MultiVarsInit ==
    /\ cursors = [id \in CursorIds |-> None]
    /\ opCursor = "none"

\* The connection as a first successful open() leaves it.
ConnOpened ==
    /\ credentials = Some(MakeCredentials("h", 443, TRUE))
    /\ connState = "open"
    /\ handle = Some([client |-> 1])
    /\ connectCalls = <<ConnectCall(MakeCredentials("h", 443, TRUE), TRUE)>>
    /\ clients = 1
    /\ openRet = "connection"
    /\ connOp = "open"
    /\ connPre = [state |-> "init", handle |-> None, clients |-> 0]

\* ---------------------------------------------------------- specifications
Init == CursorInit /\ ConnInit /\ MultiVarsInit

ExecuteOk == \E b \in Bindings, t \in Tables : Execute(b, 0, t)
ExecuteFail ==
    \E b \in Bindings : \E k \in 1..Len(TransportPath(b)) :
        Execute(b, k, [schema |-> <<>>, columns |-> <<>>, num_rows |-> 0])
FetchManyAny == \E sz \in Sizes : FetchMany(sz)

Next ==
    \/ ExecuteOk
    \/ ExecuteFail
    \/ FetchOne
    \/ FetchManyAny
    \/ FetchAll
    \/ IterNext
    \/ Close

Spec == Init /\ [][Next]_vars

NewCredentialsAny == \E h \in Hosts, p \in Ports, t \in BOOLEAN : NewCredentials(h, p, t)
OpenAny == \E o \in [1..(RetryLimit + 1) -> BOOLEAN] : Open(o)

NextConn ==
    \/ NewCredentialsAny
    \/ OpenAny
    \/ Release

SpecConn == Init /\ [][NextConn]_vars

InitMulti == CursorInit /\ ConnOpened /\ MultiVarsInit
ConnCursorAny == \E id \in CursorIds : ConnCursor(id)

NextMulti ==
    \/ ConnCursorAny
    \/ MultiExecuteOk
    \/ MultiExecuteFail
    \/ MultiFetchOne
    \/ MultiFetchMany
    \/ MultiFetchAll
    \/ MultiClose

SpecMulti == InitMulti /\ [][NextMulti]_vars

\* ----------------------------------------------------------------- claims
IsFetch == lastOp \in {"fetchone", "fetchmany", "fetchall"}

\* Row i of a table, zipped across all of its column buffers in column order.
ZipRow(table, i) == [c \in 1..Len(table.schema) |-> table.columns[c][i]]

\* C1: for a table of N rows and C > 0 columns, execute() followed by
\* fetchall() returns N rows of length C, row i being
\* (col_0[i], ..., col_{C-1}[i]), on the raw and on the prepared path.
C1_FetchAllZipsColumns ==
    (/\ lastOp = "fetchall"
     /\ pre.present
     /\ pre.cursor_position = 0
     /\ lastTable # None
     /\ Len(lastTable[1].schema) > 0)
    => LET t == lastTable[1]
       IN  /\ Len(ret.val) = t.num_rows
           /\ \A i \in 1..t.num_rows :
                /\ Len(ret.val[i]) = Len(t.schema)
                /\ ret.val[i] = ZipRow(t, i)

\* C2 (result of fetchall): with N rows and the fetch position at p,
\* fetchall() returns the N - p rows rows[p..N-1] in order and moves the
\* position to N.
C2_FetchAllResult ==
    (lastOp = "fetchall" /\ pre.present)
    => LET rows == results[1]
           p == pre.cursor_position
       IN  /\ Len(ret.val) = Len(rows) - p
           /\ \A k \in 1..Len(ret.val) : ret.val[k] = rows[p + k]
           /\ cursor_position = Len(rows)

\* C2 (what follows fetchall): the fetchone() after a fetchall() on a
\* result returns None.
C2_ThenFetchOneAbsent ==
    (lastOp = "fetchall" /\ results # None /\ lastOp' = "fetchone")
    => (ret' = RetNone /\ raised' = "none")

\* C2: fetchall() after any fetchone()/fetchmany() calls returns exactly the
\* remaining rows rows[p..N-1] and moves the position to N, and the next
\* fetchone() returns None.
C2_FetchAllReturnsRemaining == []C2_FetchAllResult /\ [][C2_ThenFetchOneAbsent]_vars

\* C3: fetchmany(size), for any integer size, returns exactly
\* min(size, remaining) rows starting at the fetch position and advances the
\* position by the number of rows returned; an omitted size counts as 1.
C3_FetchManyMinSizeRemaining ==
    (lastOp = "fetchmany" /\ pre.present)
    => LET rows == results[1]
           p == pre.cursor_position
           size == IF lastArg = None THEN 1 ELSE lastArg[1]
           remaining == Len(rows) - p
       IN  /\ Len(ret.val) = Min(size, remaining)
           /\ cursor_position = p + Len(ret.val)
           /\ \A k \in 1..Len(ret.val) : ret.val[k] = rows[p + k]

\* C4: without a result (never executed, failed, closed) or with the fetch
\* position at the number of rows, fetchone() returns None, fetchmany() and
\* fetchall() return an empty list, and none of them raises.
C4_ExhaustionIsNotAnError ==
    (IsFetch /\ (results = None \/ pre.cursor_position = Len(results[1])))
    => /\ raised = "none"
       /\ lastOp = "fetchone" => ret = RetNone
       /\ lastOp \in {"fetchmany", "fetchall"} => ret = RetList(<<>>)

C4_Witness ==
    /\ lastOp = "fetchone"
    /\ results # None
    /\ Len(results[1]) > 0
    /\ pre.cursor_position = Len(results[1])
    /\ ret = RetNone

C6_ExecuteReplacesResult ==
    (lastOp = "execute" /\ raised = "none")
    => LET t == lastTable[1]
       IN  /\ description # None
           /\ Len(description[1]) = Len(t.schema)
           /\ \A i \in 1..Len(t.schema) :
                /\ description[1][i][1] = t.schema[i].name
                /\ description[1][i][2] = t.schema[i].type
           /\ results = Some(BuildResults(t))
           /\ rowcount = Len(results[1])
           /\ cursor_position = 0

C6_Witness ==
    /\ lastOp = "execute"
    /\ raised = "none"
    /\ pre.present
    /\ pre.cursor_position > 0
    /\ pre.rowcount > rowcount

\* The connection target the specification derives from a credential set:
\* scheme, host and port of grpc+tls://{host}:{port} or grpc://{host}:{port}.
TargetUri(creds) == <<IF creds.tls THEN "grpc+tls" ELSE "grpc", creds.host, creds.port>>

\* C7: open() on a connection whose state is open makes no transport connect
\* call and returns the connection with state and handle as they were.
C7_OpenOnOpenIsNoOp ==
    (connOp = "open" /\ connPre.state = "open")
    => /\ connectCalls = <<>>
       /\ openRet = "connection"
       /\ connState = "open"
       /\ handle = connPre.handle
       /\ clients = connPre.clients

C7_Witness ==
    /\ connOp = "open"
    /\ connPre.state = "open"
    /\ handle # None
    /\ connectCalls = <<>>

\* C8: the URI grpc+tls://{host}:{port} (tls) or grpc://{host}:{port} (no
\* tls) derived from the credentials is what open() passes to the transport
\* connect call.
C8_OpenPassesTargetUri ==
    (connOp = "open" /\ connectCalls # <<>>)
    => \A i \in 1..Len(connectCalls) :
          /\ Len(connectCalls[i].args) >= 1
          /\ connectCalls[i].args[1] = TargetUri(credentials[1])

\* C9: no credentials object with a port outside [0, 65535] exists, and none
\* reaches open().
C9_PortInRange ==
    /\ credentials # None => credentials[1].port \in 0..65535
    /\ \A i \in 1..Len(connectCalls) : connectCalls[i].kwargs.port \in 0..65535

\* C10: open() on a connection that is not open makes one connect attempt
\* and at most one retry; if an attempt succeeds the connection is open and
\* holds the new wrapper; if both fail, the failure is raised and the
\* connection is not open.
C10_OpenRetriesOnce ==
    (connOp = "open" /\ connPre.state # "open")
    => LET n == Len(connectCalls)
       IN  /\ n \in 1..2
           /\ \A i \in 1..(n - 1) : ~connectCalls[i].ok
           /\ connectCalls[n].ok =>
                /\ connState = "open"
                /\ openRet = "connection"
                /\ handle = Some([client |-> connPre.clients + 1])
                /\ handle # connPre.handle
           /\ ~connectCalls[n].ok =>
                /\ n = 2
                /\ openRet = "FailedToConnectError"
                /\ connState # "open"

C10_Witness ==
    /\ connOp = "open"
    /\ connPre.state # "open"
    /\ Len(connectCalls) = 2
    /\ ~connectCalls[1].ok
    /\ connectCalls[2].ok
    /\ connState = "open"

\* C12: cursor close() clears description and rows, leaves the fetch
\* position and rowcount as they were, and every fetch on the closed cursor
\* returns None / an empty list.
C12_CloseClearsResultOnly ==
    /\ lastOp = "close" =>
          /\ results = None
          /\ description = None
          /\ cursor_position = pre.cursor_position
          /\ rowcount = pre.rowcount
    /\ (closed /\ results = None /\ IsFetch) =>
          /\ raised = "none"
          /\ ret = IF lastOp = "fetchone" THEN RetNone ELSE RetList(<<>>)
          /\ cursor_position = pre.cursor_position

C12_Witness ==
    /\ lastOp = "close"
    /\ pre.present
    /\ pre.cursor_position > 0
    /\ cursor_position > 0
    /\ rowcount > 0

\* C13: a step of the iteration from fetch position p over N rows yields
\* rows[p], p being one of p..N-1 of the rows, and moves to p + 1; at p = N
\* it ends with StopIteration, without error, and stays there, so that
\* iterating again yields nothing.
C13_IterationIsFetchOne ==
    (lastOp = "__next__" /\ pre.present)
    => LET rows == results[1]
           p == pre.cursor_position
       IN  /\ raised \in {"none", "StopIteration"}
           /\ raised = "none" =>
                /\ p \in 0..(Len(rows) - 1)
                /\ ret = RetRow(rows[p + 1])
                /\ cursor_position = p + 1
           /\ raised = "StopIteration" =>
                /\ p = Len(rows)
                /\ cursor_position = p

\* C15: when a transport call of execute() raises, that call is the last
\* transport call of the statement (nothing is retried) and the error that
\* leaves execute() is the transport's own, not the runtime error that
\* exception_handler makes of it.
C15_TransportErrorPropagates ==
    (lastOp = "execute" /\ raised # "none")
    => LET path == TransportPath(lastArg)
           k == Len(calls)
       IN  /\ k \in 1..Len(path)
           /\ \A i \in 1..k : calls[i].call = path[i]
           /\ \A i \in 1..(k - 1) : calls[i].raised = "none"
           /\ calls[k].raised = raised
           /\ raised \in TransportErrors
           /\ raised # ExceptionHandler(raised)

C15_Witness ==
    /\ lastOp = "execute"
    /\ raised \in TransportErrors
    /\ lastArg # None
    /\ Len(calls) = 2
    /\ calls[2].call = "stmt.query"

\* C16: after execute() on a table of C columns, duplicate names included,
\* the description has C descriptors in input order and every row has C
\* values, one per descriptor.
C16_DescriptorsAndRowWidth ==
    (lastOp = "execute" /\ raised = "none")
    => LET t == lastTable[1]
           C == Len(t.schema)
       IN  /\ Len(description[1]) = C
           /\ \A i \in 1..C : description[1][i][1] = t.schema[i].name
           /\ \A r \in 1..Len(results[1]) : Len(results[1][r]) = C

\* C17: once close() has been called, no later operation makes the
\* description or the rows present again.
C17_ClosedCursorStaysEmpty ==
    closed => (results = None /\ description = None)

\* C18: for a table without columns, whatever its row count, execute()
\* leaves rows = [], description = [] (present) and rowcount 0, and
\* fetchall() returns [].
C18_ZeroColumnTable ==
    (lastTable # None /\ Len(lastTable[1].schema) = 0)
    => /\ (lastOp = "execute" /\ raised = "none") =>
              /\ results = Some(<<>>)
              /\ description = Some(<<>>)
              /\ description # None
              /\ rowcount = 0
       /\ (lastOp = "fetchall" /\ pre.present) => ret = RetList(<<>>)

C18_Witness ==
    /\ lastOp = "fetchall"
    /\ pre.present
    /\ lastTable # None
    /\ Len(lastTable[1].schema) = 0
    /\ lastTable[1].num_rows = MaxRows
    /\ ret = RetList(<<>>)

\* C19: whenever a result is present, 0 <= fetch position <= len(rows).
C19_PositionInRange ==
    results # None => (0 <= cursor_position /\ cursor_position <= Len(results[1]))

\* C20 (monotone): a call other than execute() never decreases the fetch
\* position.
C20_Step ==
    lastOp' # "execute" => cursor_position' >= cursor_position

\* C20: between two execute() calls the fetch position never decreases (so
\* the rows delivered form a prefix of the rows, none twice, and exhaustion
\* once reported stays).
C20_PositionNeverDecreases == [][C20_Step]_vars

\* C14 (binding): every cursor the connection has made is bound to the
\* connection's transport client.
C14_BoundToClient ==
    \A id \in CursorIds : cursors[id] # None => cursors[id][1].client = handle[1].client

\* C14 (new cursor): cursor() returns a cursor with the fields of a new one.
C14_NewCursorStep ==
    \A id \in CursorIds :
        (cursors[id] = None /\ cursors'[id] # None) =>
            cursors'[id] = Some(NewCursor(handle[1].client))

\* C14 (independence): a call on one cursor leaves the fields of every other
\* cursor as they were.
C14_IndependenceStep ==
    \A id \in CursorIds : id # opCursor' => cursors'[id] = cursors[id]

\* C14: cursor() returns a new cursor bound to the connection's transport
\* client, and under any serialized interleaving of execute / fetch / close
\* calls on two cursors of one connection a call on one cursor leaves the
\* other's description, rows, rowcount and fetch position unchanged.
C14_CursorsIndependent ==
    []C14_BoundToClient /\ [][C14_NewCursorStep /\ C14_IndependenceStep]_vars

C14_Witness ==
    /\ cursors["c1"] # None
    /\ cursors["c2"] # None
    /\ opCursor = "c1"
    /\ cursors["c1"][1].results # None
    /\ cursors["c2"][1].results # None
    /\ cursors["c1"][1].rowcount # cursors["c2"][1].rowcount
    /\ cursors["c1"][1].cursor_position > 0
    /\ cursors["c2"][1].cursor_position > cursors["c1"][1].cursor_position

\* C21 (state): a failed execute() leaves the cursor empty: description and
\* rows absent, rowcount -1, fetch position 0.
C21_EmptyAfterFailure ==
    (lastOp = "execute" /\ raised # "none")
    => /\ results = None
       /\ description = None
       /\ rowcount = -1
       /\ cursor_position = 0

\* C21 (fetch): the fetch that follows a failed execute() returns no row.
C21_ThenNothingToFetch ==
    (lastOp = "execute" /\ raised # "none" /\ lastOp' \in {"fetchone", "fetchmany", "fetchall"})
    => (raised' = "none" /\ ret' = IF lastOp' = "fetchone" THEN RetNone ELSE RetList(<<>>))

====
